---- MODULE Spec2Model ----
(***************************************************************************)
(* Model of the user service of itfest-2025 (service/user.go): account     *)
(* registration, login, e-mail OTP verification and the password-reset     *)
(* flow, each run inside one database transaction.                         *)
(*                                                                         *)
(* The committed database is the variable db (tables users, teams, otps),  *)
(* otpSeq counts the OtpCode rows issued so far and now is the clock in    *)
(* minutes.  issuedBy and resetVerified are history variables: the handler *)
(* that issued each OtpCode row of the table, and the users whose reset    *)
(* code was consumed and who have not changed their password since.        *)
(*                                                                         *)
(* Spec and SpecProfile run one call at a time.  SpecConcurrent runs the   *)
(* calls of two requests statement by statement: calls holds, for each     *)
(* request, the handler it is in, the statement it is at, what it has read *)
(* and the writes of its open transaction.                                 *)
(* Every handler is an operator that takes the committed database and its  *)
(* inputs and returns what the call produced: the error, the token, the    *)
(* transaction's working copy, whether tx.Commit() succeeded, and the      *)
(* mails handed to the SMTP server.  The action of a handler installs the  *)
(* working copy when the transaction committed and drops it otherwise      *)
(* (defer tx.Rollback()).                                                  *)
(***************************************************************************)
EXTENDS Integers, Sequences, FiniteSets, TLC

VARIABLES db, otpSeq, now, issuedBy, resetVerified, calls

vars == <<db, otpSeq, now, issuedBy, resetVerified, calls>>

(* ------------------------------ bounds -------------------------------- *)

\* number of OtpCode rows issued in one run
MaxOtps == 2
\* the clock runs from 0 to MaxTime minutes
MaxTime == 1
\* number of calls the requests that run together make in one run
MaxCalls == 3

(* ------------------------------ inputs -------------------------------- *)

Emails == {"a@x.com", "b@x.com"}
Passwords == {"Secret1", "Secret2"}
\* the user ids a caller may present: one for each e-mail address
UserIDs == 1..Cardinality(Emails)
\* values of rand.Intn(maxRange-minRange+1) the model draws
Rands == {0, 382913}
\* values os.Getenv("EXPIRED_OTP") may return at the time of a call (strings of
\* digits; the empty string when the variable is not set)
EnvValues == {<<>>, <<0>>, <<1>>}

(* ------------------------- strings of digits -------------------------- *)

RECURSIVE Itoa(_)
\* strconv.Itoa for n >= 0
Itoa(n) == IF n < 10 THEN <<n>> ELSE Append(Itoa(n \div 10), n % 10)

RECURSIVE AtoiVal(_)
AtoiVal(s) == IF s = <<>> THEN 0 ELSE AtoiVal(SubSeq(s, 1, Len(s) - 1)) * 10 + s[Len(s)]

\* strconv.Atoi: the empty string is a syntax error
Atoi(s) == IF s = <<>> THEN [val |-> 0, err |-> "strconv.Atoi: invalid syntax"]
                       ELSE [val |-> AtoiVal(s), err |-> "nil"]

minRange == 100000
maxRange == 999999

\* mail.GenerateCode, rnd the value of rand.Intn(maxRange-minRange+1)
GenerateCode(rnd) == Itoa(rnd + minRange)

\* the codes a caller may present: the generated ones and the empty string
Codes == {GenerateCode(r) : r \in Rands} \cup {<<>>}

(* ------------------------- external packages -------------------------- *)

\* bcrypt.GenerateFromPassword: a salted hash of the password
GenerateFromPassword(password, salt) == [salt |-> salt, of |-> password]

\* bcrypt draws a random 128-bit salt for every hash: the salt of a user's new
\* hash differs from the salt of the hash it replaces
FirstSalt == 0
NextSalt(hash) == 1 - hash.salt

\* bcrypt.CompareAndHashPassword: nil exactly when the hash is of the password
CompareAndHashPassword(hash, password) ==
    IF hash.of = password THEN "nil" ELSE "crypto/bcrypt: hashedPassword is not the hash of the given password"

NoToken == <<>>
\* jwt.CreateJWTToken: a token that embeds the user id and the admin flag
CreateJWTToken(userID, isAdmin) == <<userID, isAdmin>>

ErrRecordNotFound == "record not found"

\* UserRepository.GetUser: the rows that match the non-zero fields of param
GetUser(users, param) ==
    {u \in users : /\ (param.UserID # 0 => u.UserID = param.UserID)
                   /\ (param.Email # "" => u.Email = param.Email)}

\* the row the query returns: the first by primary key
FirstUser(rows) == CHOOSE u \in rows : \A v \in rows : u.UserID <= v.UserID

\* UserRepository.CreateUser inside the transaction
CreateUser(tx, user) == [tx EXCEPT !.users = @ \cup {user}]

\* UserRepository.UpdateUser inside the transaction: the whole record is saved
UpdateUser(tx, user) ==
    [tx EXCEPT !.users = {u \in @ : u.UserID # user.UserID} \cup {user}]

\* TeamRepository.CreateTeam inside the transaction
CreateTeam(tx, team) == [tx EXCEPT !.teams = @ \cup {team}]

\* OtpRepository.CreateOtp inside the transaction; UpdatedAt is set to the clock
CreateOtp(tx, otp, t) == [tx EXCEPT !.otps = @ \cup {[otp EXCEPT !.UpdatedAt = t]}]

\* OtpRepository.GetOtp: the rows that match the non-zero fields of param
GetOtp(tx, param) ==
    {o \in tx.otps : /\ (param.UserID # 0 => o.UserID = param.UserID)
                     /\ (param.Code # <<>> => o.Code = param.Code)}

\* OtpRepository.DeleteOtp inside the transaction, by primary key
DeleteOtp(tx, otp) == [tx EXCEPT !.otps = {o \in @ : o.OtpID # otp.OtpID}]

\* a row that stands for "no row" where the query found nothing
NoOtp == [OtpID |-> 0, UserID |-> 0, Code |-> <<>>, UpdatedAt |-> 0]

\* the choices of the row GetOtp returns
FetchOtp(tx, param) == IF GetOtp(tx, param) = {} THEN {NoOtp} ELSE GetOtp(tx, param)

\* TeamRepository.GetTeamByUserID inside the transaction
GetTeamByUserID(tx, userID) == {team \in tx.teams : team.UserID = userID}

\* TeamRepository.UpdateTeam inside the transaction: the whole record is saved
UpdateTeam(tx, team) ==
    [tx EXCEPT !.teams = {x \in @ : x.TeamID # team.TeamID} \cup {team}]

\* Supabase.UploadFile: the public address of the stored file
UploadFile(file) == "payment/" \o file

\* mail.SendEmail: the message handed to the SMTP server
SendEmail(to, subject, message) == [to |-> to, subject |-> subject, message |-> message]

(* ---------------------------- transactions ---------------------------- *)

\* u.db.Begin(): the transaction works on a copy of the committed rows
Begin(d) == d

\* what a call returns and leaves behind
Return(err, token, tx, committed, sent) ==
    [err |-> err, token |-> token, tx |-> tx, committed |-> committed, sent |-> sent]

\* Deferred without the rollback: what the transaction wrote stays
DeferredNoRollback(d, r) == r.tx

\* defer tx.Rollback(): the working copy survives only when Commit succeeded
Deferred(d, r) == IF r.committed THEN r.tx ELSE d

\* the steps that can fail in a call: none of them when the call ends before it
\* reaches a step that calls a dependency
Reached(early, fails) == IF early THEN {"none"} ELSE fails

\* the rows of a table that belong to a user
RowsOf(rows, userID) == {x \in rows : x.UserID = userID}

\* the users with an e-mail address
WithEmail(d, email) == {u \in d.users : u.Email = email}

(* ------------------------------ Register ------------------------------ *)

RegisterFails ==
    {"none", "GenerateFromPassword", "NewUUID", "CreateUser", "CreateJWTToken",
     "CreateTeam", "CreateOtp", "SendEmail", "Commit"}

\* the ids uuid hands out: fresh with respect to the rows that exist
NewUserID(d) == Cardinality(d.users) + 1
NewTeamID(d) == Cardinality(d.teams) + 1

\* NewUser with the account active from the start
NewUserActive(id, email, hash) ==
    [UserID |-> id, Email |-> email, Password |-> hash,
     StatusAccount |-> "active", RoleID |-> 2,
     FullName |-> "", StudentNumber |-> "", University |-> "", Major |-> "",
     PaymentTransc |-> ""]

\* the entity.User that Register builds; the fields it does not set are empty
NewUser(id, email, hash) ==
    [UserID |-> id, Email |-> email, Password |-> hash,
     StatusAccount |-> "inactive", RoleID |-> 2,
     FullName |-> "", StudentNumber |-> "", University |-> "", Major |-> "",
     PaymentTransc |-> ""]

\* the entity.Team that Register builds
NewTeam(id, userID) ==
    [TeamID |-> id, TeamName |-> "", TeamStatus |-> "belum terverifikasi",
     UserID |-> userID, CompetitionID |-> 1]

\* the entity.OtpCode that Register and ChangePassword build
NewOtp(id, userID, code) == [OtpID |-> id, UserID |-> userID, Code |-> code, UpdatedAt |-> 0]

\* the mail Register sends
RegisterMail(email, code) ==
    SendEmail(email, "OTP Verification", <<"Your OTP verification code is ", code, ".">>)

\* RegisterValidate without the look-up of the e-mail
RegisterValidateNoLookup(d, param) ==
    IF param.Password # param.ConfirmPassword
    THEN "password doesn't match"
    ELSE "nil"

\* the validations of Register: the error they end the call with, or "nil"
RegisterValidate(d, param) ==
    IF GetUser(d.users, [UserID |-> 0, Email |-> param.Email]) # {}
    THEN "email already registered"
    ELSE IF param.Password # param.ConfirmPassword
    THEN "password doesn't match"
    ELSE "nil"

RegisterTokenError == "failed to create token"

\* UserService.Register
RegisterCall(d, t, seq, param, rnd, fail) ==
    LET tx0  == Begin(d)
        v    == RegisterValidate(d, param)
        hash == GenerateFromPassword(param.Password, FirstSalt)
        user == NewUser(NewUserID(d), param.Email, hash)
        tx1  == CreateUser(tx0, user)
        token == CreateJWTToken(user.UserID, FALSE)
        team == NewTeam(NewTeamID(d), user.UserID)
        tx2  == CreateTeam(tx1, team)
        code == GenerateCode(rnd)
        otp  == NewOtp(seq + 1, user.UserID, code)
        tx3  == CreateOtp(tx2, otp, t)
        m    == RegisterMail(user.Email, code)
    IN  IF v # "nil" THEN Return(v, NoToken, tx0, FALSE, <<>>)
        ELSE IF fail = "GenerateFromPassword" THEN Return("bcrypt error", NoToken, tx0, FALSE, <<>>)
        ELSE IF fail = "NewUUID" THEN Return("uuid error", NoToken, tx0, FALSE, <<>>)
        ELSE IF fail = "CreateUser" THEN Return("db error", NoToken, tx0, FALSE, <<>>)
        ELSE IF fail = "CreateJWTToken" THEN Return(RegisterTokenError, NoToken, tx1, FALSE, <<>>)
        ELSE IF fail = "CreateTeam" THEN Return("db error", NoToken, tx1, FALSE, <<>>)
        ELSE IF fail = "CreateOtp" THEN Return("db error", NoToken, tx2, FALSE, <<>>)
        ELSE IF fail = "SendEmail" THEN Return("smtp error", NoToken, tx3, FALSE, <<>>)
        ELSE IF fail = "Commit" THEN Return("commit error", NoToken, tx3, FALSE, <<m>>)
        ELSE Return("nil", token, tx3, TRUE, <<m>>)

\* the failures a Register call can meet
RegisterSteps(d, param) == Reached(RegisterValidate(d, param) # "nil", RegisterFails)

RegisterParams ==
    [Email : Emails, Password : Passwords, ConfirmPassword : Passwords]

(* ------------------------------- Login -------------------------------- *)

LoginFails == {"none", "CreateJWTToken", "Commit"}

LoginError == "email or password is wrong"

\* LoginCall with an error of its own for an unknown e-mail
LoginCallUserNotFound(d, param, fail) ==
    LET tx0   == Begin(d)
        found == GetUser(d.users, [UserID |-> 0, Email |-> param.Email])
        user  == FirstUser(found)
        isAdmin == user.RoleID = 1
    IN  IF found = {} THEN Return("user not found", NoToken, tx0, FALSE, <<>>)
        ELSE IF CompareAndHashPassword(user.Password, param.Password) # "nil"
        THEN Return(LoginError, NoToken, tx0, FALSE, <<>>)
        ELSE IF fail = "CreateJWTToken"
        THEN Return("failed to create token", NoToken, tx0, FALSE, <<>>)
        ELSE IF fail = "Commit"
        THEN Return("nil", CreateJWTToken(user.UserID, isAdmin), tx0, FALSE, <<>>)
        ELSE Return("nil", CreateJWTToken(user.UserID, isAdmin), tx0, TRUE, <<>>)

\* UserService.Login
LoginCall(d, param, fail) ==
    LET tx0   == Begin(d)
        found == GetUser(d.users, [UserID |-> 0, Email |-> param.Email])
        user  == FirstUser(found)
        isAdmin == user.RoleID = 1
    IN  IF found = {} THEN Return(LoginError, NoToken, tx0, FALSE, <<>>)
        ELSE IF CompareAndHashPassword(user.Password, param.Password) # "nil"
        THEN Return(LoginError, NoToken, tx0, FALSE, <<>>)
        ELSE IF fail = "CreateJWTToken"
        THEN Return("failed to create token", NoToken, tx0, FALSE, <<>>)
        ELSE IF fail = "Commit"
        THEN Return("nil", CreateJWTToken(user.UserID, isAdmin), tx0, FALSE, <<>>)
        ELSE Return("nil", CreateJWTToken(user.UserID, isAdmin), tx0, TRUE, <<>>)

\* the failures a Login call can meet
LoginSteps(d, param) == Reached(LoginCall(d, param, "none").err # "nil", LoginFails)

LoginParams == [Email : Emails, Password : Passwords]

(* ----------------------------- VerifyUser ----------------------------- *)

VerifyFails == {"none", "UpdateUser", "DeleteOtp", "Commit"}

\* time.Now().UTC().Add(-time.Duration(expiredTime) * time.Minute), in minutes
ExpiredThreshold(t, expiredTime) == t - expiredTime

\* Before that also holds of equal times
BeforeOrEqual(updatedAt, threshold) == updatedAt <= threshold

\* Before with the operands the wrong way round
BeforeReversed(updatedAt, threshold) == threshold < updatedAt

\* otp.UpdatedAt.Before(expiredThreshold)
Before(updatedAt, threshold) == updatedAt < threshold

\* VerifyUserCheck without the comparison of the codes
VerifyUserCheckAnyCode(otp, param, t, env) ==
    IF otp = NoOtp THEN ErrRecordNotFound
    ELSE IF Atoi(env).err # "nil" THEN Atoi(env).err
    ELSE IF Before(otp.UpdatedAt, ExpiredThreshold(t, Atoi(env).val)) THEN "otp expired"
    ELSE "nil"

\* the checks VerifyUser makes on the row it fetched: the error, or "nil"
VerifyUserCheck(otp, param, t, env) ==
    IF otp = NoOtp THEN ErrRecordNotFound
    ELSE IF otp.Code # param.OtpCode THEN "invalid otp code"
    ELSE IF Atoi(env).err # "nil" THEN Atoi(env).err
    ELSE IF Before(otp.UpdatedAt, ExpiredThreshold(t, Atoi(env).val)) THEN "otp expired"
    ELSE "nil"

\* UserService.VerifyUser, otp the row OtpRepository.GetOtp returned
VerifyUserCall(d, t, env, param, otp, fail) ==
    LET tx0   == Begin(d)
        v     == VerifyUserCheck(otp, param, t, env)
        found == GetUser(d.users, [UserID |-> param.UserID, Email |-> ""])
        user  == [FirstUser(found) EXCEPT !.StatusAccount = "active"]
        tx1   == UpdateUser(tx0, user)
        tx2   == DeleteOtp(tx1, otp)
    IN  IF v # "nil" THEN Return(v, NoToken, tx0, FALSE, <<>>)
        ELSE IF found = {} THEN Return(ErrRecordNotFound, NoToken, tx0, FALSE, <<>>)
        ELSE IF fail = "UpdateUser" THEN Return("db error", NoToken, tx0, FALSE, <<>>)
        ELSE IF fail = "DeleteOtp" THEN Return("db error", NoToken, tx1, FALSE, <<>>)
        ELSE IF fail = "Commit" THEN Return("commit error", NoToken, tx2, FALSE, <<>>)
        ELSE Return("nil", NoToken, tx2, TRUE, <<>>)

\* the failures a VerifyUser call can meet
VerifyUserSteps(otp, param, t, env) ==
    Reached(VerifyUserCheck(otp, param, t, env) # "nil", VerifyFails)

VerifyUserParams == [UserID : UserIDs, OtpCode : Codes]

\* the query of VerifyUser: by user alone
VerifyUserQuery(param) == [UserID |-> param.UserID, Code |-> <<>>]

(* --------------------------- ChangePassword --------------------------- *)

ChangePasswordFails == {"none", "CreateOtp", "SendEmail", "CreateJWTToken", "Commit"}

\* the mail ChangePassword sends
ResetMail(email, code) ==
    SendEmail(email, "Reset Password Token", <<"Your Reset Password Code is ", code, ".">>)

\* UserService.ChangePassword
ChangePasswordCall(d, t, seq, email, rnd, fail) ==
    LET tx0   == Begin(d)
        found == GetUser(d.users, [UserID |-> 0, Email |-> email])
        user  == FirstUser(found)
        otp   == GenerateCode(rnd)
        tx1   == CreateOtp(tx0, NewOtp(seq + 1, user.UserID, otp), t)
        m     == ResetMail(user.Email, otp)
    IN  IF found = {} THEN Return(ErrRecordNotFound, NoToken, tx0, FALSE, <<>>)
        ELSE IF fail = "CreateOtp" THEN Return("db error", NoToken, tx0, FALSE, <<>>)
        ELSE IF fail = "SendEmail" THEN Return("smtp error", NoToken, tx1, FALSE, <<>>)
        ELSE IF fail = "CreateJWTToken" THEN Return("nil", NoToken, tx1, FALSE, <<m>>)
        ELSE IF fail = "Commit" THEN Return("commit error", NoToken, tx1, FALSE, <<m>>)
        ELSE Return("nil", CreateJWTToken(user.UserID, FALSE), tx1, TRUE, <<m>>)

\* the failures a ChangePassword call can meet
ChangePasswordSteps(d, email) == Reached(WithEmail(d, email) = {}, ChangePasswordFails)

(* ----------------------- VerifyOtpChangePassword ---------------------- *)

VerifyOtpFails == {"none", "DeleteOtp", "Commit"}

\* VerifyOtpCheck without the expiry
VerifyOtpCheckNoExpiry(otp, param, t, env) ==
    IF otp = NoOtp THEN ErrRecordNotFound
    ELSE IF otp.Code # param.OTP THEN "invalid token"
    ELSE IF Atoi(env).err # "nil" THEN Atoi(env).err
    ELSE "nil"

\* the checks VerifyOtpChangePassword makes on the row it fetched
VerifyOtpCheck(otp, param, t, env) ==
    IF otp = NoOtp THEN ErrRecordNotFound
    ELSE IF otp.Code # param.OTP THEN "invalid token"
    ELSE IF Atoi(env).err # "nil" THEN Atoi(env).err
    ELSE IF Before(otp.UpdatedAt, ExpiredThreshold(t, Atoi(env).val)) THEN "token expired"
    ELSE "nil"

\* UserService.VerifyOtpChangePassword, otp the row OtpRepository.GetOtp returned
VerifyOtpChangePasswordCall(d, t, env, param, otp, fail) ==
    LET tx0 == Begin(d)
        v   == VerifyOtpCheck(otp, param, t, env)
        tx1 == DeleteOtp(tx0, otp)
    IN  IF v # "nil" THEN Return(v, NoToken, tx0, FALSE, <<>>)
        ELSE IF fail = "DeleteOtp" THEN Return("db error", NoToken, tx0, FALSE, <<>>)
        ELSE IF fail = "Commit" THEN Return("commit error", NoToken, tx1, FALSE, <<>>)
        ELSE Return("nil", NoToken, tx1, TRUE, <<>>)

\* the failures a VerifyOtpChangePassword call can meet
VerifyOtpSteps(otp, param, t, env) ==
    Reached(VerifyOtpCheck(otp, param, t, env) # "nil", VerifyOtpFails)

VerifyTokenParams == [UserID : UserIDs, OTP : Codes]

\* the query of VerifyOtpChangePassword: by user and code
VerifyOtpQuery(param) == [UserID |-> param.UserID, Code |-> param.OTP]

(* ---------------------- ChangePasswordAfterVerify --------------------- *)

ResetFails == {"none", "GenerateFromPassword", "UpdateUser", "Commit"}

\* SameAsOld after user.Password was overwritten with the new hash
SameAsOldAfterOverwrite(user, param) ==
    CompareAndHashPassword(GenerateFromPassword(param.NewPassword, NextSalt(user.Password)),
                           param.NewPassword) = "nil"

\* the comparison of the new password with the stored hash
SameAsOld(user, param) == CompareAndHashPassword(user.Password, param.NewPassword) = "nil"

\* UserService.ChangePasswordAfterVerify
ChangePasswordAfterVerifyCall(d, param, fail) ==
    LET tx0   == Begin(d)
        found == GetUser(d.users, [UserID |-> param.UserID, Email |-> ""])
        user  == FirstUser(found)
        hashPassword == GenerateFromPassword(param.NewPassword, NextSalt(user.Password))
        tx1   == UpdateUser(tx0, [user EXCEPT !.Password = hashPassword])
    IN  IF found = {} THEN Return(ErrRecordNotFound, NoToken, tx0, FALSE, <<>>)
        ELSE IF param.NewPassword # param.ConfirmPassword
        THEN Return("password mismatch", NoToken, tx0, FALSE, <<>>)
        ELSE IF fail = "GenerateFromPassword" THEN Return("bcrypt error", NoToken, tx0, FALSE, <<>>)
        ELSE IF SameAsOld(user, param)
        THEN Return("new password cannot be same as old password", NoToken, tx0, FALSE, <<>>)
        ELSE IF fail = "UpdateUser" THEN Return("db error", NoToken, tx0, FALSE, <<>>)
        ELSE IF fail = "Commit" THEN Return("commit error", NoToken, tx1, FALSE, <<>>)
        ELSE Return("nil", NoToken, tx1, TRUE, <<>>)

\* the failures a ChangePasswordAfterVerify call can meet
ResetSteps(d, param) ==
    Reached(\/ RowsOf(d.users, param.UserID) = {}
            \/ param.NewPassword # param.ConfirmPassword, ResetFails)

ResetPasswordParams ==
    [UserID : UserIDs, NewPassword : Passwords, ConfirmPassword : Passwords]

(* --------------------- profile, payment, competition ------------------ *)

\* the profiles a caller may send (model.UpdateProfile and
\* model.CompetitionRegistrationRequest carry the same four fields)
Profiles ==
    {[FullName |-> "Ann", StudentNumber |-> "215150", University |-> "UB", Major |-> "CS"]}
Files == {"proof.png"}
CompetitionIDs == {2, 3}

\* the four profile fields of param written over those of user
WithProfile(user, param) ==
    [user EXCEPT !.FullName = param.FullName, !.StudentNumber = param.StudentNumber,
                 !.University = param.University, !.Major = param.Major]

UploadFails == {"none", "UploadFile", "UpdateUser", "Commit"}

\* UserService.UploadPayment
UploadPaymentCall(d, userID, file, fail) ==
    LET tx0   == Begin(d)
        found == GetUser(d.users, [UserID |-> userID, Email |-> ""])
        paymentURL == UploadFile(file)
        tx1   == UpdateUser(tx0, [FirstUser(found) EXCEPT !.PaymentTransc = paymentURL])
    IN  IF found = {} THEN Return("user not found", "", tx0, FALSE, <<>>)
        ELSE IF fail = "UploadFile" THEN Return("storage error", "", tx0, FALSE, <<>>)
        ELSE IF fail = "UpdateUser" THEN Return("db error", "", tx0, FALSE, <<>>)
        ELSE IF fail = "Commit" THEN Return("commit error", "", tx1, FALSE, <<>>)
        ELSE Return("nil", paymentURL, tx1, TRUE, <<>>)

ProfileFails == {"none", "UpdateUser", "Commit"}

\* UserService.UpdateProfile
UpdateProfileCall(d, userID, param, fail) ==
    LET tx0   == Begin(d)
        found == GetUser(d.users, [UserID |-> userID, Email |-> ""])
        tx1   == UpdateUser(tx0, WithProfile(FirstUser(found), param))
    IN  IF found = {} THEN Return(ErrRecordNotFound, <<>>, tx0, FALSE, <<>>)
        ELSE IF fail = "UpdateUser" THEN Return("db error", <<>>, tx0, FALSE, <<>>)
        ELSE IF fail = "Commit" THEN Return("commit error", <<>>, tx1, FALSE, <<>>)
        ELSE Return("nil", param, tx1, TRUE, <<>>)

CompetitionFails == {"none", "UpdateUser", "GetTeamByUserID", "UpdateTeam", "Commit"}

\* CompetitionRegistrationCall with a commit of its own after the user is saved
CompetitionRegistrationTwoCommits(d, userID, competitionID, param, fail) ==
    LET tx0   == Begin(d)
        found == GetUser(d.users, [UserID |-> userID, Email |-> ""])
        tx1   == UpdateUser(tx0, WithProfile(FirstUser(found), param))
        teams == GetTeamByUserID(tx1, userID)
        team  == CHOOSE x \in teams : TRUE
        tx2   == UpdateTeam(tx1, [team EXCEPT !.CompetitionID = competitionID])
    IN  IF found = {} THEN Return(ErrRecordNotFound, NoToken, tx0, FALSE, <<>>)
        ELSE IF fail = "UpdateUser" THEN Return("db error", NoToken, tx0, FALSE, <<>>)
        ELSE IF fail = "GetTeamByUserID" \/ teams = {}
        THEN Return(ErrRecordNotFound, NoToken, tx1, TRUE, <<>>)
        ELSE IF fail = "UpdateTeam" THEN Return("db error", NoToken, tx1, TRUE, <<>>)
        ELSE IF fail = "Commit" THEN Return("commit error", NoToken, tx1, TRUE, <<>>)
        ELSE Return("nil", NoToken, tx2, TRUE, <<>>)

\* UserService.CompetitionRegistration
CompetitionRegistrationCall(d, userID, competitionID, param, fail) ==
    LET tx0   == Begin(d)
        found == GetUser(d.users, [UserID |-> userID, Email |-> ""])
        tx1   == UpdateUser(tx0, WithProfile(FirstUser(found), param))
        teams == GetTeamByUserID(tx1, userID)
        team  == CHOOSE x \in teams : TRUE
        tx2   == UpdateTeam(tx1, [team EXCEPT !.CompetitionID = competitionID])
    IN  IF found = {} THEN Return(ErrRecordNotFound, NoToken, tx0, FALSE, <<>>)
        ELSE IF fail = "UpdateUser" THEN Return("db error", NoToken, tx0, FALSE, <<>>)
        ELSE IF fail = "GetTeamByUserID" \/ teams = {}
        THEN Return(ErrRecordNotFound, NoToken, tx1, FALSE, <<>>)
        ELSE IF fail = "UpdateTeam" THEN Return("db error", NoToken, tx1, FALSE, <<>>)
        ELSE IF fail = "Commit" THEN Return("commit error", NoToken, tx2, FALSE, <<>>)
        ELSE Return("nil", NoToken, tx2, TRUE, <<>>)

\* the failures a call that starts with the look-up of the user can meet
UserSteps(d, userID, fails) == Reached(RowsOf(d.users, userID) = {}, fails)

(* ------------------------------ the state ----------------------------- *)


\* the OtpCode ids the call used up
Issued(d, r) == IF r.committed THEN Cardinality(r.tx.otps \ d.otps) ELSE 0

\* the end of a call: the deferred rollback
Finish(r) ==
    /\ db' = Deferred(db, r)
    /\ otpSeq' = otpSeq + Issued(db, r)
    /\ UNCHANGED <<now, calls>>

\* the requests that run at the same time
Procs == {1, 2}

NoUser == [UserID |-> 0]

\* a request that is in no call, after n calls of its own
Blank(n) ==
    [n |-> n, op |-> "none", pc |-> "idle", param |-> <<>>, user |-> NoUser, otp |-> NoOtp,
     log |-> <<>>, err |-> "nil"]

\* history: the handler that issued each row of the table d2, the rows that are
\* new being issued by flow
Flows(f, d2, flow) ==
    [id \in {o.OtpID : o \in d2.otps} |-> IF id \in DOMAIN f THEN f[id] ELSE flow]

\* history: the call r of VerifyOtpChangePassword consumed a row that
\* ChangePassword issued
ConsumedReset(f, d, r) ==
    r.committed /\ \E o \in d.otps \ r.tx.otps : f[o.OtpID] = "ChangePassword"

Init ==
    /\ db = [users |-> {}, teams |-> {}, otps |-> {}]
    /\ otpSeq = 0
    /\ now = 0
    /\ issuedBy = <<>>
    /\ resetVerified = {}
    /\ calls = [p \in Procs |-> Blank(0)]

Register ==
    \E param \in RegisterParams, rnd \in Rands :
        \E fail \in RegisterSteps(db, param) :
            /\ otpSeq < MaxOtps
            /\ Finish(RegisterCall(db, now, otpSeq, param, rnd, fail))
            /\ issuedBy' = Flows(issuedBy, db', "Register")
            /\ UNCHANGED resetVerified

Login ==
    \E param \in LoginParams :
        \E fail \in LoginSteps(db, param) :
            /\ param.Email \in Emails
            /\ Finish(LoginCall(db, param, fail))
            /\ UNCHANGED <<issuedBy, resetVerified>>

VerifyUser ==
    \E param \in VerifyUserParams, EXPIRED_OTP \in EnvValues :
        \E otp \in FetchOtp(Begin(db), VerifyUserQuery(param)) :
            \E fail \in VerifyUserSteps(otp, param, now, EXPIRED_OTP) :
                /\ param.UserID \in UserIDs
                /\ Finish(VerifyUserCall(db, now, EXPIRED_OTP, param, otp, fail))
                /\ issuedBy' = Flows(issuedBy, db', "none")
                /\ UNCHANGED resetVerified

ChangePassword ==
    \E email \in Emails, rnd \in Rands :
        \E fail \in ChangePasswordSteps(db, email) :
            /\ otpSeq < MaxOtps
            /\ Finish(ChangePasswordCall(db, now, otpSeq, email, rnd, fail))
            /\ issuedBy' = Flows(issuedBy, db', "ChangePassword")
            /\ UNCHANGED resetVerified

VerifyOtpChangePassword ==
    \E param \in VerifyTokenParams, EXPIRED_OTP \in EnvValues :
        \E otp \in FetchOtp(Begin(db), VerifyOtpQuery(param)) :
            \E fail \in VerifyOtpSteps(otp, param, now, EXPIRED_OTP) :
                /\ param.UserID \in UserIDs
                /\ LET r == VerifyOtpChangePasswordCall(db, now, EXPIRED_OTP, param, otp, fail)
                   IN  /\ Finish(r)
                       /\ issuedBy' = Flows(issuedBy, db', "none")
                       /\ resetVerified' = IF ConsumedReset(issuedBy, db, r)
                                           THEN resetVerified \cup {param.UserID}
                                           ELSE resetVerified

ChangePasswordAfterVerify ==
    \E param \in ResetPasswordParams :
        \E fail \in ResetSteps(db, param) :
            /\ param.UserID \in UserIDs
            /\ LET r == ChangePasswordAfterVerifyCall(db, param, fail)
               IN  /\ Finish(r)
                   /\ resetVerified' = IF r.committed THEN resetVerified \ {param.UserID}
                                       ELSE resetVerified
                   /\ UNCHANGED issuedBy

\* a minute passes
Tick ==
    /\ now < MaxTime
    /\ now' = now + 1
    /\ UNCHANGED <<db, otpSeq, issuedBy, resetVerified, calls>>

UploadPayment ==
    \E userID \in UserIDs, file \in Files :
        \E fail \in UserSteps(db, userID, UploadFails) :
            /\ Finish(UploadPaymentCall(db, userID, file, fail))
            /\ UNCHANGED <<issuedBy, resetVerified>>

UpdateProfile ==
    \E userID \in UserIDs, param \in Profiles :
        \E fail \in UserSteps(db, userID, ProfileFails) :
            /\ Finish(UpdateProfileCall(db, userID, param, fail))
            /\ UNCHANGED <<issuedBy, resetVerified>>

CompetitionRegistration ==
    \E userID \in UserIDs, competitionID \in CompetitionIDs, param \in Profiles :
        \E fail \in UserSteps(db, userID, CompetitionFails) :
            /\ Finish(CompetitionRegistrationCall(db, userID, competitionID, param, fail))
            /\ UNCHANGED <<issuedBy, resetVerified>>

Next ==
    \/ Register
    \/ Login
    \/ VerifyUser
    \/ ChangePassword
    \/ VerifyOtpChangePassword
    \/ ChangePasswordAfterVerify
    \/ Tick

Spec == Init /\ [][Next]_vars

\* registration and activation with the handlers that write the profile, the
\* payment proof and the competition, one call at a time
NextProfile ==
    \/ Register
    \/ VerifyUser
    \/ UploadPayment
    \/ UpdateProfile
    \/ CompetitionRegistration

SpecProfile == Init /\ [][NextProfile]_vars

(* ----------------------- calls that run together ---------------------- *)

\* one statement of a transaction: a call of a repository with the row it is given
Write(w, row) == [w |-> w, row |-> row]

RECURSIVE Replay(_, _)
\* tx.Commit(): the rows after the statements of log ran on the rows d, in order
Replay(d, log) ==
    IF log = <<>> THEN d
    ELSE LET st   == log[Len(log)]
             prev == Replay(d, SubSeq(log, 1, Len(log) - 1))
         IN  CASE st.w = "CreateUser" -> CreateUser(prev, st.row)
               [] st.w = "UpdateUser" -> UpdateUser(prev, st.row)
               [] st.w = "CreateTeam" -> CreateTeam(prev, st.row)
               [] st.w = "CreateOtp"  -> CreateOtp(prev, st.row, st.row.UpdatedAt)
               [] st.w = "DeleteOtp"  -> DeleteOtp(prev, st.row)

\* the rows that open transactions other than that of p gave to the statement w
PendingRows(p, w) ==
    UNION {{calls[q].log[i].row : i \in {j \in DOMAIN calls[q].log : calls[q].log[j].w = w}} :
              q \in Procs \ {p}}

\* uuid.NewUUID, uuid.New: an id that no row has
FreshID(ids) == IF ids = {} THEN 1 ELSE (CHOOSE m \in ids : \A k \in ids : k <= m) + 1

\* the unique index on users.email: an insert waits while another open
\* transaction holds a row with the same e-mail, and is refused when a committed
\* row has it
InsertWaits(p, email) == \E u \in PendingRows(p, "CreateUser") : u.Email = email
ErrDuplicateEntry == "Error 1062: Duplicate entry"

\* what the calls that run together send: one password, the first code
ConcurrentPassword == "Secret1"
ConcurrentRand == 0

\* the call c has returned err: what is kept of it is its handler, the error
\* and, of a call that succeeded, the OtpCode it read and the user it wrote
Done(c, err) ==
    IF err = "nil"
    THEN [Blank(c.n) EXCEPT !.op = c.op, !.pc = "done", !.otp = c.otp, !.user = c.user]
    ELSE [Blank(c.n) EXCEPT !.op = c.op, !.pc = "done", !.err = err]

\* request p starts a call of handler op
Started(p, op, param) ==
    [Blank(calls[p].n + 1) EXCEPT !.op = op, !.param = param]

\* the calls started so far
RECURSIVE CallsStarted(_)
CallsStarted(ps) ==
    IF ps = {} THEN 0 ELSE LET p == CHOOSE x \in ps : TRUE IN calls[p].n + CallsStarted(ps \ {p})

CanStart(p) == calls[p].pc \in {"idle", "done"} /\ CallsStarted(Procs) < MaxCalls

At(p, op, pc) == calls[p].op = op /\ calls[p].pc = pc

\* the call of request p moves on to c; the rows are not written
Goes(p, c) ==
    /\ calls' = [calls EXCEPT ![p] = c]
    /\ UNCHANGED <<db, otpSeq, now, issuedBy, resetVerified>>

\* the call of request p moves on to the statement pc after its transaction
\* took the statement w on row
Writes(p, w, row, pc) ==
    Goes(p, [calls[p] EXCEPT !.log = Append(@, Write(w, row)), !.pc = pc])

\* Register: tx.Begin and the two validations, the look-up outside the transaction
RegisterBegin(p) ==
    \E param \in {x \in RegisterParams : x.Password = ConcurrentPassword} :
        LET c == Started(p, "Register", param)
            v == RegisterValidate(db, param)
        IN  /\ CanStart(p)
            /\ Goes(p, IF v # "nil" THEN Done(c, v) ELSE [c EXCEPT !.pc = "CreateUser"])

\* RegisterCreateUser that goes on when the insert was refused
RegisterCreateUserUnchecked(p) ==
    LET c    == calls[p]
        id   == FreshID({u.UserID : u \in db.users \cup PendingRows(p, "CreateUser")})
        user == NewUser(id, c.param.Email, GenerateFromPassword(c.param.Password, FirstSalt))
    IN  /\ At(p, "Register", "CreateUser")
        /\ ~ InsertWaits(p, user.Email)
        /\ IF WithEmail(db, user.Email) # {}
           THEN Goes(p, [c EXCEPT !.user = user, !.pc = "CreateTeam"])
           ELSE Goes(p, [c EXCEPT !.user = user, !.pc = "CreateTeam",
                                  !.log = Append(@, Write("CreateUser", user))])

\* Register: the hash, the id and UserRepository.CreateUser
RegisterCreateUser(p) ==
    LET c    == calls[p]
        id   == FreshID({u.UserID : u \in db.users \cup PendingRows(p, "CreateUser")})
        user == NewUser(id, c.param.Email, GenerateFromPassword(c.param.Password, FirstSalt))
    IN  /\ At(p, "Register", "CreateUser")
        /\ ~ InsertWaits(p, user.Email)
        /\ IF WithEmail(db, user.Email) # {}
           THEN Goes(p, Done(c, ErrDuplicateEntry))
           ELSE Goes(p, [c EXCEPT !.user = user, !.pc = "CreateTeam",
                                  !.log = Append(@, Write("CreateUser", user))])

\* Register: the token and TeamRepository.CreateTeam
RegisterCreateTeam(p) ==
    LET id == FreshID({x.TeamID : x \in db.teams \cup PendingRows(p, "CreateTeam")})
    IN  /\ At(p, "Register", "CreateTeam")
        /\ Writes(p, "CreateTeam", NewTeam(id, calls[p].user.UserID), "CreateOtp")

\* Register: the code, OtpRepository.CreateOtp and the mail
RegisterCreateOtp(p) ==
    LET otp == [NewOtp(otpSeq + 1, calls[p].user.UserID, GenerateCode(ConcurrentRand))
                   EXCEPT !.UpdatedAt = now]
    IN  /\ At(p, "Register", "CreateOtp")
        /\ calls' = [calls EXCEPT ![p] = [@ EXCEPT !.log = Append(@, Write("CreateOtp", otp)),
                                                   !.pc = "Commit"]]
        /\ otpSeq' = otpSeq + 1
        /\ UNCHANGED <<db, now, issuedBy, resetVerified>>

\* VerifyUser: tx.Begin, OtpRepository.GetOtp and the checks of the row
VerifyUserBegin(p) ==
    \E param \in VerifyUserParams, EXPIRED_OTP \in EnvValues :
        \E otp \in FetchOtp(db, VerifyUserQuery(param)) :
            LET c == Started(p, "VerifyUser", param)
                v == VerifyUserCheck(otp, param, now, EXPIRED_OTP)
            IN  /\ CanStart(p)
                /\ Goes(p, IF v # "nil" THEN Done(c, v)
                                        ELSE [c EXCEPT !.otp = otp, !.pc = "GetUser"])

\* VerifyUser: UserRepository.GetUser, outside the transaction
VerifyUserGetUser(p) ==
    LET c     == calls[p]
        found == GetUser(db.users, [UserID |-> c.param.UserID, Email |-> ""])
    IN  /\ At(p, "VerifyUser", "GetUser")
        /\ Goes(p, IF found = {} THEN Done(c, ErrRecordNotFound)
                   ELSE [c EXCEPT !.user = [FirstUser(found) EXCEPT !.StatusAccount = "active"],
                                  !.pc = "UpdateUser"])

\* VerifyUser: UserRepository.UpdateUser with the record it read
VerifyUserUpdateUser(p) ==
    /\ At(p, "VerifyUser", "UpdateUser")
    /\ Writes(p, "UpdateUser", calls[p].user, "DeleteOtp")

\* VerifyUser: OtpRepository.DeleteOtp of the row it read
VerifyUserDeleteOtp(p) ==
    /\ At(p, "VerifyUser", "DeleteOtp")
    /\ Writes(p, "DeleteOtp", calls[p].otp, "Commit")

\* VerifyOtpChangePassword: tx.Begin, OtpRepository.GetOtp and the checks
VerifyOtpBegin(p) ==
    \E param \in VerifyTokenParams, EXPIRED_OTP \in EnvValues :
        \E otp \in FetchOtp(db, VerifyOtpQuery(param)) :
            LET c == Started(p, "VerifyOtpChangePassword", param)
                v == VerifyOtpCheck(otp, param, now, EXPIRED_OTP)
            IN  /\ CanStart(p)
                /\ Goes(p, IF v # "nil" THEN Done(c, v)
                                        ELSE [c EXCEPT !.otp = otp, !.pc = "DeleteOtp"])

\* VerifyOtpChangePassword: OtpRepository.DeleteOtp of the row it read
VerifyOtpDeleteOtp(p) ==
    /\ At(p, "VerifyOtpChangePassword", "DeleteOtp")
    /\ Writes(p, "DeleteOtp", calls[p].otp, "Commit")

\* UpdateProfile: tx.Begin, UserRepository.GetUser outside the transaction and
\* the four fields written over the record
UpdateProfileBegin(p) ==
    \E userID \in UserIDs, param \in Profiles :
        LET c     == Started(p, "UpdateProfile", [UserID |-> userID])
            found == GetUser(db.users, [UserID |-> userID, Email |-> ""])
        IN  /\ CanStart(p)
            /\ Goes(p, IF found = {} THEN Done(c, ErrRecordNotFound)
                       ELSE [c EXCEPT !.user = WithProfile(FirstUser(found), param),
                                      !.pc = "UpdateUser"])

\* UpdateProfile: UserRepository.UpdateUser with the record it read
UpdateProfileUpdateUser(p) ==
    /\ At(p, "UpdateProfile", "UpdateUser")
    /\ Writes(p, "UpdateUser", calls[p].user, "Commit")

\* ChangePasswordAfterVerify: tx.Begin, UserRepository.GetUser outside the
\* transaction, the two checks and the new hash put into the record
ResetBegin(p) ==
    \E param \in {x \in ResetPasswordParams : x.NewPassword = x.ConfirmPassword} :
        LET c     == Started(p, "ChangePasswordAfterVerify", param)
            found == GetUser(db.users, [UserID |-> param.UserID, Email |-> ""])
            user  == FirstUser(found)
            hashPassword == GenerateFromPassword(param.NewPassword, NextSalt(user.Password))
        IN  /\ CanStart(p)
            /\ Goes(p, IF found = {} THEN Done(c, ErrRecordNotFound)
                       ELSE IF SameAsOld(user, param)
                       THEN Done(c, "new password cannot be same as old password")
                       ELSE [c EXCEPT !.user = [user EXCEPT !.Password = hashPassword],
                                      !.pc = "UpdateUser"])

\* ChangePasswordAfterVerify: UserRepository.UpdateUser with the record it read
ResetUpdateUser(p) ==
    /\ At(p, "ChangePasswordAfterVerify", "UpdateUser")
    /\ Writes(p, "UpdateUser", calls[p].user, "Commit")

\* tx.Commit() of the handler request p is in: its statements take effect
Commit(p) ==
    /\ calls[p].pc = "Commit"
    /\ db' = Replay(db, calls[p].log)
    /\ calls' = [calls EXCEPT ![p] = Done(@, "nil")]
    /\ UNCHANGED <<otpSeq, now, issuedBy, resetVerified>>

NextConcurrent ==
    \E p \in Procs :
        \/ RegisterBegin(p)
        \/ RegisterCreateUser(p)
        \/ RegisterCreateTeam(p)
        \/ RegisterCreateOtp(p)
        \/ VerifyUserBegin(p)
        \/ VerifyUserGetUser(p)
        \/ VerifyUserUpdateUser(p)
        \/ VerifyUserDeleteOtp(p)
        \/ VerifyOtpBegin(p)
        \/ VerifyOtpDeleteOtp(p)
        \/ UpdateProfileBegin(p)
        \/ UpdateProfileUpdateUser(p)
        \/ ResetBegin(p)
        \/ ResetUpdateUser(p)
        \/ Commit(p)

SpecConcurrent == Init /\ [][NextConcurrent]_vars

(* ------------------------- what the claims use ------------------------ *)

\* the lifetime in minutes that env configures, when env is a number
Configured(env) == env # <<>>
Lifetime(env) == AtoiVal(env)

\* the age of the row at time t is within the configured lifetime
Fresh(otp, t, env) == Configured(env) /\ t - otp.UpdatedAt <= Lifetime(env)

\* the age of the row at time t is beyond the configured lifetime
Expired(otp, t, env) == Configured(env) /\ t - otp.UpdatedAt > Lifetime(env)

(* -------------------------------- C1 ---------------------------------- *)

\* what a successful Register leaves behind, d the rows before the call
RegisterEffect(d, param, r) ==
    LET d2 == Deferred(d, r)
    IN  /\ d.users \subseteq d2.users /\ d.teams \subseteq d2.teams /\ d.otps \subseteq d2.otps
        /\ \E u \in d2.users, team \in d2.teams, o \in d2.otps :
              /\ d2.users \ d.users = {u}
              /\ u.Email = param.Email
              /\ u.StatusAccount = "inactive"
              /\ u.RoleID = 2
              /\ d2.teams \ d.teams = {team}
              /\ RowsOf(d2.teams, u.UserID) = {team}
              /\ d2.otps \ d.otps = {o}
              /\ RowsOf(d2.otps, u.UserID) = {o}
              /\ r.sent = <<RegisterMail(param.Email, o.Code)>>

\* C1: every Register call that returns success has committed exactly one new
\* User with the given e-mail, status inactive and the participant role, exactly
\* one Team and exactly one OtpCode bound to that user, and has sent exactly one
\* mail that carries that OtpCode's code to that e-mail.
C1_RegisterSuccess ==
    \A param \in RegisterParams, rnd \in Rands :
      \A fail \in RegisterSteps(db, param) :
        LET r == RegisterCall(db, now, otpSeq, param, rnd, fail)
        IN  r.err = "nil" => RegisterEffect(db, param, r)

\* a user as Register left it: inactive, with its one team and its one OtpCode,
\* next to an older user
C1_Witness ==
    \E u \in db.users :
        /\ u.UserID = 2
        /\ u.StatusAccount = "inactive"
        /\ Cardinality(RowsOf(db.teams, u.UserID)) = 1
        /\ Cardinality(RowsOf(db.otps, u.UserID)) = 1
        /\ Cardinality(db.users) = 2

(* -------------------------------- C2 ---------------------------------- *)

\* C2: Register is all-or-nothing: when a step after the validations fails
\* (hashing, id generation, user creation, token issuance, team creation, OTP
\* creation, the mail, the commit) the call returns an error and none of the rows
\* it wrote persists; a token-issuance failure is reported as "failed to create
\* token".
C2_RegisterAllOrNothing ==
    \A param \in RegisterParams, rnd \in Rands :
      \A fail \in RegisterSteps(db, param) :
        LET r == RegisterCall(db, now, otpSeq, param, rnd, fail)
        IN  /\ (RegisterValidate(db, param) = "nil" /\ fail # "none") =>
                  /\ r.err # "nil"
                  /\ r.token = NoToken
                  /\ Deferred(db, r) = db
            /\ (RegisterValidate(db, param) = "nil" /\ fail = "CreateJWTToken") =>
                  r.err = "failed to create token"
            /\ Deferred(db, r) # db => r.err = "nil"

\* next to a registered user, a Register call whose mail fails: the transaction
\* held the three new rows and none of them is left
C2_Witness ==
    /\ db.users # {}
    /\ \E param \in RegisterParams, rnd \in Rands :
          LET r == RegisterCall(db, now, otpSeq, param, rnd, "SendEmail")
          IN  /\ RegisterValidate(db, param) = "nil"
              /\ r.err # "nil"
              /\ Cardinality(r.tx.users) = Cardinality(db.users) + 1
              /\ Cardinality(r.tx.teams) = Cardinality(db.teams) + 1
              /\ Cardinality(r.tx.otps) = Cardinality(db.otps) + 1
              /\ Deferred(db, r) = db

(* -------------------------------- C3 ---------------------------------- *)

\* C3: a Register call that the validations reject has no effect: with an e-mail
\* that already exists it fails with "email already registered", with a password
\* that differs from its confirmation it fails with "password doesn't match", and
\* in both cases no row is created and no mail is sent.
C3_RegisterRejected ==
    \A param \in RegisterParams, rnd \in Rands :
      \A fail \in RegisterSteps(db, param) :
        LET r == RegisterCall(db, now, otpSeq, param, rnd, fail)
            taken == WithEmail(db, param.Email) # {}
            differ == param.Password # param.ConfirmPassword
        IN  /\ taken => r.err = "email already registered"
            /\ (~ taken /\ differ) => r.err = "password doesn't match"
            /\ (taken \/ differ) =>
                  /\ Deferred(db, r) = db
                  /\ r.sent = <<>>
                  /\ r.token = NoToken

\* one e-mail is registered and the other is not: a call with the first is a
\* conflict, a call with the second and two different passwords is invalid
C3_Witness ==
    \E p1 \in RegisterParams, p2 \in RegisterParams, rnd \in Rands :
        /\ WithEmail(db, p1.Email) # {}
        /\ p1.Password = p1.ConfirmPassword
        /\ RegisterCall(db, now, otpSeq, p1, rnd, "none").err = "email already registered"
        /\ WithEmail(db, p2.Email) = {}
        /\ p2.Password # p2.ConfirmPassword
        /\ RegisterCall(db, now, otpSeq, p2, rnd, "none").err = "password doesn't match"

(* -------------------------------- C4 ---------------------------------- *)

\* the row VerifyUser fetches for a user, and the calls that can follow
VerifyUserFetches(d, param) == FetchOtp(Begin(d), VerifyUserQuery(param))

\* C4: a VerifyUser call that succeeds has set the user's status to active and
\* deleted the OtpCode in one commit, and a second VerifyUser for the same user
\* afterwards fails with "record not found" because no OTP is left.
C4_VerifyThenNotFound ==
    \A param \in VerifyUserParams, env \in EnvValues :
        \A otp \in VerifyUserFetches(db, param) :
          \A fail \in VerifyUserSteps(otp, param, now, env) :
            LET r  == VerifyUserCall(db, now, env, param, otp, fail)
                d2 == Deferred(db, r)
            IN  /\ r.err = "nil" =>
                      /\ \A u \in RowsOf(d2.users, param.UserID) : u.StatusAccount = "active"
                      /\ otp \notin d2.otps
                      /\ \A p2 \in VerifyUserParams, env2 \in EnvValues :
                            p2.UserID = param.UserID =>
                                \A otp2 \in VerifyUserFetches(d2, p2) :
                                    VerifyUserCall(d2, now, env2, p2, otp2, "none").err = ErrRecordNotFound
                /\ r.err # "nil" => d2 = db

(* -------------------------------- C5 ---------------------------------- *)

\* C5: a VerifyUser call whose code does not match the fetched row fails with
\* "invalid otp code" and changes no row: the user keeps its status and the
\* OtpCode stays, so that a VerifyUser with the code of that row, within the
\* lifetime, still succeeds and activates the user.
C5_WrongCodeNoEffect ==
    \A param \in VerifyUserParams, env \in EnvValues :
        \A otp \in VerifyUserFetches(db, param) :
          \A fail \in VerifyUserSteps(otp, param, now, env) :
            LET r  == VerifyUserCall(db, now, env, param, otp, fail)
                d2 == Deferred(db, r)
                retry == VerifyUserCall(d2, now, env, [param EXCEPT !.OtpCode = otp.Code], otp, "none")
            IN  /\ (otp # NoOtp /\ otp.Code # param.OtpCode) =>
                      /\ r.err = "invalid otp code"
                      /\ d2 = db
                      /\ otp \in VerifyUserFetches(d2, param)
                      /\ (Fresh(otp, now, env) /\ RowsOf(d2.users, param.UserID) # {}) =>
                            /\ retry.err = "nil"
                            /\ \A u \in RowsOf(Deferred(d2, retry).users, param.UserID) :
                                  u.StatusAccount = "active"
                            /\ otp \notin Deferred(d2, retry).otps
                /\ r.err = "invalid otp code" => d2 = db

\* an inactive user with one fresh OtpCode: a wrong code is refused, the row is
\* still there and its code is then accepted
C5_Witness ==
    \E u \in db.users, o \in db.otps, param \in VerifyUserParams, env \in EnvValues :
        /\ u.StatusAccount = "inactive"
        /\ RowsOf(db.otps, u.UserID) = {o}
        /\ now > o.UpdatedAt
        /\ Fresh(o, now, env)
        /\ param.UserID = u.UserID
        /\ param.OtpCode # o.Code
        /\ VerifyUserCall(db, now, env, param, o, "none").err = "invalid otp code"
        /\ VerifyUserCall(db, now, env, [param EXCEPT !.OtpCode = o.Code], o, "none").err = "nil"

(* -------------------------------- C6 ---------------------------------- *)

\* C6 as stated: a VerifyUser call after the lifetime of the fetched row has
\* passed fails with "otp expired" whether the presented code is right or wrong,
\* and changes no row.
C6_ExpiredWhateverCode ==
    \A param \in VerifyUserParams, env \in EnvValues :
        \A otp \in VerifyUserFetches(db, param) :
          \A fail \in VerifyUserSteps(otp, param, now, env) :
            LET r == VerifyUserCall(db, now, env, param, otp, fail)
            IN  (otp # NoOtp /\ Expired(otp, now, env)) =>
                    /\ r.err = "otp expired"
                    /\ Deferred(db, r) = db

\* C6 amended: a VerifyUser call after the lifetime of the fetched row has passed
\* fails with "otp expired" when the presented code matches that row and with
\* "invalid otp code" when it does not, and in both cases changes no row.
C6_ExpiredAfterMatch ==
    \A param \in VerifyUserParams, env \in EnvValues :
        \A otp \in VerifyUserFetches(db, param) :
          \A fail \in VerifyUserSteps(otp, param, now, env) :
            LET r == VerifyUserCall(db, now, env, param, otp, fail)
            IN  (otp # NoOtp /\ Expired(otp, now, env)) =>
                    /\ otp.Code = param.OtpCode => r.err = "otp expired"
                    /\ otp.Code # param.OtpCode => r.err = "invalid otp code"
                    /\ Deferred(db, r) = db

\* a row older than the configured lifetime, presented with its own code and
\* with another one
C6_Witness ==
    \E o \in db.otps, env \in EnvValues, code \in Codes :
        /\ Expired(o, now, env)
        /\ code # o.Code
        /\ VerifyUserCall(db, now, env, [UserID |-> o.UserID, OtpCode |-> o.Code], o, "none").err
              = "otp expired"
        /\ VerifyUserCall(db, now, env, [UserID |-> o.UserID, OtpCode |-> code], o, "none").err
              = "invalid otp code"

(* -------------------------------- C7 ---------------------------------- *)

\* what the caller of Login sees
LoginResponse(r) == <<r.err, r.token>>

\* C7: Login with an unknown e-mail and Login with a known e-mail and a wrong
\* password return the same response, the error "email or password is wrong"
\* without a token; and Login, whatever its outcome, changes no row.
C7_LoginIndistinguishable ==
    \A p1 \in LoginParams :
      \A f1 \in LoginSteps(db, p1) :
        LET r1 == LoginCall(db, p1, f1)
            unknown1 == WithEmail(db, p1.Email) = {}
            wrong1 == \E u \in WithEmail(db, p1.Email) :
                          CompareAndHashPassword(u.Password, p1.Password) # "nil"
        IN  /\ Deferred(db, r1) = db
            /\ (unknown1 \/ wrong1) => LoginResponse(r1) = <<"email or password is wrong", NoToken>>
            /\ \A p2 \in LoginParams, f2 \in LoginFails :
                  (/\ unknown1
                   /\ \E u \in WithEmail(db, p2.Email) :
                          CompareAndHashPassword(u.Password, p2.Password) # "nil")
                  => LoginResponse(r1) = LoginResponse(LoginCall(db, p2, f2))

\* one e-mail is registered and the other is not: a login with the unknown one
\* and a login with the known one and a wrong password, while the right password
\* is given a token
C7_Witness ==
    \E p1 \in LoginParams, p2 \in LoginParams, p3 \in LoginParams :
        /\ WithEmail(db, p1.Email) = {}
        /\ LoginCall(db, p1, "none").err = "email or password is wrong"
        /\ WithEmail(db, p2.Email) # {}
        /\ LoginCall(db, p2, "none").err = "email or password is wrong"
        /\ p3.Email = p2.Email
        /\ LoginCall(db, p3, "none").err = "nil"
        /\ LoginCall(db, p3, "none").token # NoToken

(* -------------------------------- C8 ---------------------------------- *)

\* C8: ChangePasswordAfterVerify fails with "password mismatch" when the new
\* password differs from its confirmation and with "new password cannot be same
\* as old password" when it is the password of the stored hash, and then the
\* stored hash is unchanged; the comparison is made with the old hash, and the
\* new hash is persisted exactly when both checks pass and no step fails.
C8_ApplyNewPassword ==
    \A param \in ResetPasswordParams :
        \A user \in RowsOf(db.users, param.UserID), fail \in ResetSteps(db, param) :
            LET r  == ChangePasswordAfterVerifyCall(db, param, fail)
                d2 == Deferred(db, r)
                differ == param.NewPassword # param.ConfirmPassword
                same == CompareAndHashPassword(user.Password, param.NewPassword) = "nil"
            IN  /\ differ => r.err = "password mismatch"
                /\ (~ differ /\ same /\ fail # "GenerateFromPassword") =>
                      r.err = "new password cannot be same as old password"
                /\ (differ \/ same) => d2 = db
                /\ r.err # "nil" => d2 = db
                /\ (~ differ /\ ~ same /\ fail = "none") => r.err = "nil"
                /\ r.err = "nil" =>
                      /\ ~ differ /\ ~ same
                      /\ \E u2 \in d2.users :
                            /\ d2.users = (db.users \ {user}) \cup {u2}
                            /\ u2 = [user EXCEPT !.Password = u2.Password]
                            /\ u2.Password # user.Password
                            /\ CompareAndHashPassword(u2.Password, param.NewPassword) = "nil"
                      /\ d2.teams = db.teams /\ d2.otps = db.otps

\* a user whose password was changed once: its current password is refused as the
\* new one, a confirmation that differs is refused, another password is taken
C8_Witness ==
    \E user \in db.users, p1 \in ResetPasswordParams, p2 \in ResetPasswordParams,
       p3 \in ResetPasswordParams :
        /\ user.Password.salt # FirstSalt
        /\ p1.UserID = user.UserID /\ p2.UserID = user.UserID /\ p3.UserID = user.UserID
        /\ ChangePasswordAfterVerifyCall(db, p1, "none").err
              = "new password cannot be same as old password"
        /\ ChangePasswordAfterVerifyCall(db, p2, "none").err = "password mismatch"
        /\ ChangePasswordAfterVerifyCall(db, p3, "none").err = "nil"

(* -------------------------------- C9 ---------------------------------- *)

\* the row VerifyOtpChangePassword fetches for a user and a code
VerifyOtpFetches(d, param) == FetchOtp(Begin(d), VerifyOtpQuery(param))

\* C9: VerifyOtpChangePassword never changes a User row: on a matching (user,
\* code) row within the lifetime it deletes exactly that OtpCode row and commits;
\* on an absent pair, a mismatch or an expired code it returns an error and
\* deletes nothing.
C9_VerifyOtpConsumes ==
    \A param \in VerifyTokenParams, env \in EnvValues :
        \A otp \in VerifyOtpFetches(db, param) :
          \A fail \in VerifyOtpSteps(otp, param, now, env) :
            LET r  == VerifyOtpChangePasswordCall(db, now, env, param, otp, fail)
                d2 == Deferred(db, r)
                match == otp # NoOtp /\ otp.UserID = param.UserID /\ otp.Code = param.OTP
            IN  /\ d2.users = db.users
                /\ d2.teams = db.teams
                /\ (match /\ Fresh(otp, now, env) /\ fail = "none") =>
                      /\ r.err = "nil"
                      /\ otp \in db.otps
                      /\ d2.otps = db.otps \ {otp}
                /\ (~ match \/ Expired(otp, now, env)) => r.err # "nil"
                /\ r.err # "nil" => d2 = db
                /\ r.err = "nil" => match /\ Fresh(otp, now, env)

\* a user with a fresh row and an expired row: the first is consumed, the second
\* refused, and a code that no row carries is not found
C9_Witness ==
    \E o1 \in db.otps, o2 \in db.otps, env \in EnvValues, code \in Codes :
        /\ o1.UserID = o2.UserID
        /\ Fresh(o1, now, env)
        /\ Expired(o2, now, env)
        /\ code # <<>>
        /\ VerifyOtpFetches(db, [UserID |-> o1.UserID, OTP |-> code]) = {NoOtp}
        /\ VerifyOtpChangePasswordCall(db, now, env, [UserID |-> o1.UserID, OTP |-> o1.Code],
                                       o1, "none").err = "nil"
        /\ VerifyOtpChangePasswordCall(db, now, env, [UserID |-> o2.UserID, OTP |-> o2.Code],
                                       o2, "none").err = "token expired"

(* -------------------------------- C10 --------------------------------- *)

\* C10: every ChangePassword call that returns without error, the one whose
\* token could not be created and which returns an empty token included, leaves
\* a new OtpCode row for the user, the row whose code it mailed.
C10_ResetOtpCommitted ==
    \A email \in Emails, rnd \in Rands :
      \A fail \in ChangePasswordSteps(db, email) :
        LET r  == ChangePasswordCall(db, now, otpSeq, email, rnd, fail)
            d2 == Deferred(db, r)
        IN  r.err = "nil" =>
                \E u \in WithEmail(db, email), o \in d2.otps :
                    /\ d2.otps \ db.otps = {o}
                    /\ o.UserID = u.UserID
                    /\ r.sent = <<ResetMail(email, o.Code)>>

(* -------------------------------- C11 --------------------------------- *)

\* the OtpCode row a call created is in the table when the call has ended
RowPersists(d, r) ==
    /\ r.tx.otps \ d.otps # {}
    /\ r.tx.otps \ d.otps \subseteq Deferred(d, r).otps

\* C11: at the end of every Register and every ChangePassword call the OtpCode
\* row the call created persists if and only if the mail with its code was sent:
\* no step after the mail (token issuance, commit) ends the call with the mail
\* sent and the row absent.
C11_OtpIffMailed ==
    /\ \A param \in RegisterParams, rnd \in Rands :
         \A fail \in RegisterSteps(db, param) :
           LET r == RegisterCall(db, now, otpSeq, param, rnd, fail)
           IN  RowPersists(db, r) <=> r.sent # <<>>
    /\ \A email \in Emails, rnd \in Rands :
         \A fail \in ChangePasswordSteps(db, email) :
           LET r == ChangePasswordCall(db, now, otpSeq, email, rnd, fail)
           IN  RowPersists(db, r) <=> r.sent # <<>>

(* -------------------------------- C12 --------------------------------- *)

\* C12: VerifyUser succeeds only for a user whose status is inactive at the time
\* of the call, never for a user that is already active.
C12_VerifyOnlyInactive ==
    \A param \in VerifyUserParams, env \in EnvValues :
        \A otp \in VerifyUserFetches(db, param) :
          \A fail \in VerifyUserSteps(otp, param, now, env) :
            VerifyUserCall(db, now, env, param, otp, fail).err = "nil" =>
                \A u \in RowsOf(db.users, param.UserID) : u.StatusAccount = "inactive"

(* -------------------------------- C13 --------------------------------- *)

\* C13: ChangePasswordAfterVerify changes a user's password hash only if, earlier
\* in the run, a reset code issued to that user by ChangePassword was consumed by
\* a successful VerifyOtpChangePassword, with no other password change of that
\* user in between.
C13_ResetFlowOrdered ==
    \A param \in ResetPasswordParams :
        \A fail \in ResetSteps(db, param) :
            LET r == ChangePasswordAfterVerifyCall(db, param, fail)
            IN  Deferred(db, r).users # db.users => param.UserID \in resetVerified

(* -------------------------------- C17 --------------------------------- *)

\* C17: with the lifetime L read from the environment at the time of the call,
\* VerifyUser and VerifyOtpChangePassword refuse a matching code as expired
\* exactly when the row's UpdatedAt is strictly earlier than now minus L; a row
\* whose age is exactly L is accepted, and both handlers draw the same line.
C17_ExpiryBoundary ==
    \A o \in db.otps, env \in EnvValues :
        LET L  == Lifetime(env)
            rv == VerifyUserCall(db, now, env, [UserID |-> o.UserID, OtpCode |-> o.Code], o, "none")
            rt == VerifyOtpChangePasswordCall(db, now, env, [UserID |-> o.UserID, OTP |-> o.Code],
                                              o, "none")
        IN  Configured(env) =>
                /\ rv.err = "otp expired" <=> o.UpdatedAt < now - L
                /\ rt.err = "token expired" <=> o.UpdatedAt < now - L
                /\ rv.err = "nil" <=> rt.err = "nil"
                /\ now - o.UpdatedAt = L => rv.err = "nil" /\ rt.err = "nil"

\* a row one minute old: accepted by both handlers with a lifetime of one minute,
\* refused by both with a lifetime of zero minutes
C17_Witness ==
    \E o \in db.otps :
        /\ now - o.UpdatedAt = 1
        /\ VerifyUserCall(db, now, <<1>>, [UserID |-> o.UserID, OtpCode |-> o.Code], o, "none").err
              = "nil"
        /\ VerifyOtpChangePasswordCall(db, now, <<1>>, [UserID |-> o.UserID, OTP |-> o.Code],
                                       o, "none").err = "nil"
        /\ VerifyUserCall(db, now, <<0>>, [UserID |-> o.UserID, OtpCode |-> o.Code], o, "none").err
              = "otp expired"
        /\ VerifyOtpChangePasswordCall(db, now, <<0>>, [UserID |-> o.UserID, OTP |-> o.Code],
                                       o, "none").err = "token expired"

(* -------------------------------- C18 --------------------------------- *)

\* C18: an OtpCode that ChangePassword issued is never accepted by VerifyUser,
\* and an OtpCode that Register issued is never consumed by
\* VerifyOtpChangePassword.
C18_OtpScopedToFlow ==
    /\ \A param \in VerifyUserParams, env \in EnvValues :
         \A otp \in VerifyUserFetches(db, param) :
           \A fail \in VerifyUserSteps(otp, param, now, env) :
             VerifyUserCall(db, now, env, param, otp, fail).err = "nil" =>
                 issuedBy[otp.OtpID] = "Register"
    /\ \A param \in VerifyTokenParams, env \in EnvValues :
         \A otp \in VerifyOtpFetches(db, param) :
           \A fail \in VerifyOtpSteps(otp, param, now, env) :
             VerifyOtpChangePasswordCall(db, now, env, param, otp, fail).err = "nil" =>
                 issuedBy[otp.OtpID] = "ChangePassword"

(* -------------------------------- C19 --------------------------------- *)

\* the row of a user that was issued last
LatestOtp(rows) == CHOOSE o \in rows : \A o2 \in rows : o2.OtpID <= o.OtpID

\* C19: when a user has several OtpCode rows, VerifyUser with the code of the row
\* issued last, within its lifetime, succeeds whichever row the store fetched.
C19_LatestCodeAccepted ==
    \A u \in db.users, env \in EnvValues :
        LET rows  == RowsOf(db.otps, u.UserID)
            param == [UserID |-> u.UserID, OtpCode |-> LatestOtp(rows).Code]
        IN  (Cardinality(rows) > 1 /\ Fresh(LatestOtp(rows), now, env)) =>
                \A otp \in VerifyUserFetches(db, param) :
                    VerifyUserCall(db, now, env, param, otp, "none").err = "nil"

(* -------------------------------- C16 --------------------------------- *)

\* what a call left behind: its error, the transaction and whether it committed
Outcome(r) == [err |-> r.err, tx |-> r.tx, committed |-> r.committed]

\* what every call of every handler that writes returns in the state
\* (d, t, seq): each input and each failure it can meet
AllCalls(d, t, seq) ==
    {Outcome(RegisterCall(d, t, seq, c[1], c[2], c[3])) :
        c \in {x \in RegisterParams \X Rands \X RegisterFails : x[3] \in RegisterSteps(d, x[1])}}
    \cup {Outcome(LoginCall(d, c[1], c[2])) :
        c \in {x \in LoginParams \X LoginFails : x[2] \in LoginSteps(d, x[1])}}
    \cup UNION {{Outcome(VerifyUserCall(d, t, c[2], c[1], otp, fail)) :
                    fail \in VerifyUserSteps(otp, c[1], t, c[2])} :
        c \in VerifyUserParams \X EnvValues, otp \in d.otps \cup {NoOtp}}
    \cup {Outcome(ChangePasswordCall(d, t, seq, c[1], c[2], c[3])) :
        c \in {x \in Emails \X Rands \X ChangePasswordFails :
                  x[3] \in ChangePasswordSteps(d, x[1])}}
    \cup UNION {{Outcome(VerifyOtpChangePasswordCall(d, t, c[2], c[1], otp, fail)) :
                    fail \in VerifyOtpSteps(otp, c[1], t, c[2])} :
        c \in VerifyTokenParams \X EnvValues, otp \in d.otps \cup {NoOtp}}
    \cup {Outcome(ChangePasswordAfterVerifyCall(d, c[1], c[2])) :
        c \in {x \in ResetPasswordParams \X ResetFails : x[2] \in ResetSteps(d, x[1])}}
    \cup {Outcome(UploadPaymentCall(d, c[1], c[2], c[3])) :
        c \in {x \in UserIDs \X Files \X UploadFails : x[3] \in UserSteps(d, x[1], UploadFails)}}
    \cup {Outcome(UpdateProfileCall(d, c[1], c[2], c[3])) :
        c \in {x \in UserIDs \X Profiles \X ProfileFails :
                  x[3] \in UserSteps(d, x[1], ProfileFails)}}
    \cup {Outcome(CompetitionRegistrationCall(d, c[1], c[2], c[3], c[4])) :
        c \in {x \in UserIDs \X CompetitionIDs \X Profiles \X CompetitionFails :
                  x[4] \in UserSteps(d, x[1], CompetitionFails)}}

\* C16: no handler commits a part of its writes: a call that returns an error
\* leaves the User, Team and OtpCode rows as they were, a transaction is
\* committed only by a call that returns success and is rolled back otherwise;
\* CompetitionRegistration persists the profile it wrote over the user and the
\* competition of the user's team both or neither.
C16_NoPartialCommit ==
    /\ \A r \in AllCalls(db, now, otpSeq) :
          /\ r.err # "nil" => Deferred(db, r) = db
          /\ r.committed => r.err = "nil"
    /\ \A userID \in UserIDs, competitionID \in CompetitionIDs, param \in Profiles :
         \A fail \in UserSteps(db, userID, CompetitionFails) :
           LET r  == CompetitionRegistrationCall(db, userID, competitionID, param, fail)
               d2 == Deferred(db, r)
           IN  \/ d2 = db
               \/ /\ r.err = "nil"
                  /\ \A u \in RowsOf(d2.users, userID) : u = WithProfile(u, param)
                  /\ \E team \in RowsOf(d2.teams, userID) : team.CompetitionID = competitionID
                  /\ \A team \in RowsOf(d2.teams, userID) : team.CompetitionID = competitionID

\* a user enrolled in competition 2 with its profile, next to a user with a
\* payment proof for whom an enrolment fails at the team: the transaction holds
\* the profile written over the user and nothing of it is left
C16_Witness ==
    \E u1 \in db.users, u2 \in db.users, param \in Profiles :
        /\ u1 = WithProfile(u1, param)
        /\ \E team \in RowsOf(db.teams, u1.UserID) : team.CompetitionID = 2
        /\ u2.FullName = ""
        /\ u2.PaymentTransc # ""
        /\ LET r == CompetitionRegistrationCall(db, u2.UserID, 3, param, "UpdateTeam")
           IN  /\ r.err # "nil"
               /\ r.tx.users # db.users
               /\ Deferred(db, r) = db

(* -------------------------------- C14 --------------------------------- *)

\* the call of request p has returned success after it consumed an OtpCode
Consumed(p) ==
    /\ calls[p].pc = "done"
    /\ calls[p].err = "nil"
    /\ calls[p].op \in {"VerifyUser", "VerifyOtpChangePassword"}

\* C14: whatever the interleaving of VerifyUser and VerifyOtpChangePassword calls
\* for one user and code, an OtpCode row is consumed by at most one successful
\* call.
C14_ConsumedOnce ==
    \A p \in Procs, q \in Procs :
        (p # q /\ Consumed(p) /\ Consumed(q)) => calls[p].otp.OtpID # calls[q].otp.OtpID

(* -------------------------------- C15 --------------------------------- *)

\* C15: once the committed status of a user is active no step makes it inactive
\* again, whatever the interleaving of the calls.
C15_ActiveTerminal ==
    [][\A u \in db.users, u2 \in db'.users :
          (u.UserID = u2.UserID /\ u.StatusAccount = "active") => u2.StatusAccount = "active"]_vars

(* -------------------------------- C20 --------------------------------- *)

\* the call of request p is a Register call that has returned
Registered(p) == calls[p].pc = "done" /\ calls[p].op = "Register"

\* C20: whatever the interleaving of Register calls, at most one User row exists
\* for an e-mail: of two calls with the same e-mail at most one commits, and the
\* one that fails leaves no row: every Team and every OtpCode belongs to a User
\* and every User has its one Team.
C20_EmailUnique ==
    /\ \A u1 \in db.users, u2 \in db.users : u1.Email = u2.Email => u1 = u2
    /\ \A p \in Procs, q \in Procs :
          (p # q /\ Registered(p) /\ Registered(q)
                 /\ calls[p].err = "nil" /\ calls[q].err = "nil")
          => calls[p].user.Email # calls[q].user.Email
    /\ \A p \in Procs : (Registered(p) /\ calls[p].err = "nil") =>
          \E u \in RowsOf(db.users, calls[p].user.UserID) : u.Email = calls[p].user.Email
    /\ \A team \in db.teams : RowsOf(db.users, team.UserID) # {}
    /\ \A o \in db.otps : RowsOf(db.users, o.UserID) # {}
    /\ \A u \in db.users : Cardinality(RowsOf(db.teams, u.UserID)) = 1

\* two Register calls that ran together with one e-mail: both passed the look-up,
\* one committed, the insert of the other was refused, and one user with its team
\* and its OtpCode is all there is
C20_Witness ==
    \E p \in Procs, q \in Procs :
        /\ Registered(p) /\ calls[p].err = "nil"
        /\ Registered(q) /\ calls[q].err = ErrDuplicateEntry
        /\ Cardinality(db.users) = 1
        /\ Cardinality(db.teams) = 1
        /\ Cardinality(db.otps) = 1

====
